---- MODULE Spec2Model ----
(***************************************************************************)
(* SQLiteVSS: a vector store kept in SQLite with the vss0 virtual table.   *)
(* Model of langchain/vectorstores/sqlitevss.py: the schema set up by the  *)
(* constructor, the write path add_texts with its AFTER INSERT trigger,    *)
(* and the k-nearest-neighbour query path.                                 *)
(*                                                                         *)
(* The database is seen through the one sqlite3 connection the caller      *)
(* hands to the stores.  Python's sqlite3 module (default isolation level) *)
(* runs DDL statements without opening a transaction and opens one         *)
(* implicitly before an INSERT; only commit() closes it.                   *)
(***************************************************************************)
EXTENDS Integers, Sequences, FiniteSets, TLC

\* Bounds of the model.
MaxBatch == 2   \* longest list of texts handed to add_texts
MaxRows == 3    \* rows stored over all tables of the database
MaxK == 2       \* largest k of a search

Min(a, b) == IF a < b THEN a ELSE b

\* ------------------------------------------------------------ the fixture

\* texts = ["foo", "bar", "baz"] of the tests.
FakeTexts == <<"foo", "bar", "baz">>

\* The table of the tests, and a second table on the same connection.
TableNames == {"test", "other"}

\* The batches of texts the callers pass: the first n of the fixture's texts.
Batches == {SubSeq(FakeTexts, 1, n) : n \in 0..Min(MaxBatch, Len(FakeTexts))}

\* ------------------------------------------------------- Python values

PyNone == [type |-> "NoneType", val |-> <<>>]
PyDict(pairs) == [type |-> "dict", val |-> pairs]
PyList(items) == [type |-> "list", val |-> items]

\* Python's truth value of an Optional[List]: None and [] are false.
Truthy(v) == v.type # "NoneType" /\ v.val # <<>>

\* metadatas = [{"page": i} for i in range(len(texts))] of the tests.
PageMetadatas(n) == PyList([i \in 1..n |-> PyDict(<< <<"page", i - 1>> >>)])

\* What a caller passes as metadatas for n texts: nothing, or one mapping per
\* text.
MetadataArgs(n) == {PyNone, PageMetadatas(n)}

\* ----------------------------------------------------------------- JSON
\* A JSON text is the sequence of its tokens.

ParseInt(tok) == CHOOSE n \in 0..9 : ToString(n) = tok

RECURSIVE DumpPairs(_)
DumpPairs(pairs) ==
    IF pairs = <<>> THEN <<>>
    ELSE <<Head(pairs)[1], ":", ToString(Head(pairs)[2])>>
         \o (IF Tail(pairs) = <<>> THEN <<>> ELSE <<",">> \o DumpPairs(Tail(pairs)))

RECURSIVE DumpItems(_)
DumpItems(items) ==
    IF items = <<>> THEN <<>>
    ELSE <<ToString(Head(items))>>
         \o (IF Tail(items) = <<>> THEN <<>> ELSE <<",">> \o DumpItems(Tail(items)))

\* json.dumps of a metadata value (None or a dict) and of an embedding (a list).
json_dumps(v) ==
    IF v.type = "NoneType" THEN <<"null">>
    ELSE IF v.type = "dict" THEN <<"{">> \o DumpPairs(v.val) \o <<"}">>
    ELSE <<"[">> \o DumpItems(v.val) \o <<"]">>

\* json.loads of a stored metadata text.
json_loads(toks) ==
    IF toks = <<"null">> THEN PyNone
    ELSE PyDict([i \in 1..(Len(toks) \div 4) |->
                    <<toks[4 * i - 2], ParseInt(toks[4 * i])>>])

\* The vector vss0 reads from the JSON text of an embedding.
vss_vector(toks) == [i \in 1..(Len(toks) \div 2) |-> ParseInt(toks[2 * i])]

\* ------------------------------------------------------- the embeddings
\* The embedding function is a collaborator: deterministic, of fixed width.

Embed(text) ==
    CASE text = "foo" -> <<0, 0>>
      [] text = "bar" -> <<1, 0>>
      [] text = "baz" -> <<2, 0>>
      [] OTHER -> <<1, 1>>

embed_documents(texts) == [i \in 1..Len(texts) |-> Embed(texts[i])]
embed_query(text) == Embed(text)

get_dimensionality == Len(embed_query("This is a dummy text"))

\* The distance of the index: squared Euclidean.
RECURSIVE L2(_, _)
L2(u, v) ==
    IF u = <<>> THEN 0
    ELSE (Head(u) - Head(v)) * (Head(u) - Head(v)) + L2(Tail(u), Tail(v))

\* The vectors a caller searches by: the embeddings of the fixture's texts and
\* one of another width.
QueryVectors == {Embed(FakeTexts[i]) : i \in 1..Len(FakeTexts)} \cup {<<1>>}

\* VectorStore._euclidean_relevance_score_fn: the score of a distance, a
\* transform that increases with the distance.
euclidean_relevance_score_fn(distance) == 2 * distance + 1

\* ------------------------------------------------------------ the state

VARIABLES
    db,         \* the database as the connection sees it: tables, vtabs, trigger, rows, index
    inTxn,      \* the connection has an open transaction
    committed,  \* the number of rows of each primary table at the last commit
    stores,     \* the table names of the constructed SQLiteVSS instances
    supplied,   \* per table, the (text, metadata) pairs the successful add_texts calls were given
    call,       \* the last call: its arguments, what the environment did, its outcome
    results,    \* the rows the last search fetched (text, metadata, distance)
    ret         \* what the last search returned

vars == <<db, inTxn, committed, stores, supplied, call, results, ret>>

NoTrigger == "none"

NoCall ==
    [op |-> "none", table |-> "", connection |-> "", texts |-> <<>>,
     metadatas |-> PyNone, embedding |-> <<>>, query |-> "", k |-> 0,
     fault |-> <<"none", 0>>,
     existed |-> FALSE, issued |-> FALSE, outcome |-> "ok"]

EmptyDb ==
    [tables |-> {}, vtabs |-> {}, trigger |-> NoTrigger,
     rows |-> [t \in TableNames |-> <<>>], index |-> [t \in TableNames |-> <<>>]]

Init ==
    /\ db = EmptyDb
    /\ inTxn = FALSE
    /\ committed = [t \in TableNames |-> 0]
    /\ stores = {}
    /\ supplied = [t \in TableNames |-> {}]
    /\ call = NoCall
    /\ results = <<>>
    /\ ret = <<>>

\* The caller is between two calls.
Idle == call = NoCall

\* The caller takes the outcome of its call (the value returned or the
\* exception raised) and goes on.
Return ==
    /\ ~Idle
    /\ call' = NoCall
    /\ results' = <<>>
    /\ ret' = <<>>
    /\ UNCHANGED <<db, inTxn, committed, stores, supplied>>

\* ------------------------------------------------------------ the schema

HasVtab(d, table) == \E p \in d.vtabs : p[1] = table
Dim(d, table) == (CHOOSE p \in d.vtabs : p[1] = table)[2]

\* A CreateTable that drops the table before it creates it.
CreateTable_fresh(d, table) ==
    [d EXCEPT !.tables = @ \cup {table}, !.rows[table] = <<>>]

\* CREATE TABLE IF NOT EXISTS {table}
CreateTable(d, table) == [d EXCEPT !.tables = @ \cup {table}]

\* CREATE VIRTUAL TABLE IF NOT EXISTS vss_{table} USING vss0(text_embedding(dim))
CreateVirtualTable(d, table, dim) ==
    IF HasVtab(d, table) THEN d ELSE [d EXCEPT !.vtabs = @ \cup {<<table, dim>>}]

\* CREATE TRIGGER IF NOT EXISTS embed_text AFTER INSERT ON {table}: the name
\* embed_text is one name in the database, whatever the table.
CreateTrigger(d, table) ==
    IF d.trigger # NoTrigger THEN d ELSE [d EXCEPT !.trigger = table]

\* What the environment does to a call of n statements: nothing, the package
\* sqlite_vss is not installed, the embedding function raises, or the storage
\* layer fails statement i.  A call ends at its first exception.
Faults(n) ==
    {<<"none", 0>>, <<"embed", 0>>} \cup {<<"storage", i>> : i \in 1..n}

\* create_table_if_not_exists: the three statements, the probe of the
\* dimensionality between the first and the second, then commit.
create_table_if_not_exists(d, table, fault) ==
    LET d1 == CreateTable(d, table)
        d2 == CreateVirtualTable(d1, table, get_dimensionality)
        d3 == CreateTrigger(d2, table)
    IN  IF fault = <<"storage", 1>> THEN [db |-> d, outcome |-> "OperationalError"]
        ELSE IF fault[1] = "embed" THEN [db |-> d1, outcome |-> "EmbeddingError"]
        ELSE IF fault = <<"storage", 2>> THEN [db |-> d1, outcome |-> "OperationalError"]
        ELSE IF fault = <<"storage", 3>> THEN [db |-> d2, outcome |-> "OperationalError"]
        ELSE [db |-> d3, outcome |-> "ok"]

\* create_connection(db_file): connects, sets the row factory, enables
\* extension loading, and then reads the name sqlite_vss, which the module
\* binds only under TYPE_CHECKING: a NameError, and no connection is returned.
create_connection == [connection |-> "None", outcome |-> "NameError"]

\* commit(): closes the transaction; what the connection sees is committed.
Commit(d) == [t \in TableNames |-> Len(d.rows[t])]

\* SQLiteVSS(table, connection, embedding, db_file): the import of sqlite_vss,
\* create_connection when no connection is passed (its result is not kept:
\* _connection is the argument), then create_table_if_not_exists.
SQLiteVSS_init(table, connection, fault) ==
    LET c == [NoCall EXCEPT !.op = "__init__", !.table = table,
                            !.connection = connection, !.fault = fault,
                            !.existed = table \in stores]
        opened == IF connection = "None" THEN create_connection.outcome ELSE "ok"
        _connection == connection
        r == create_table_if_not_exists(db, table, fault)
    IN  /\ Idle
        /\ supplied' = supplied
        /\ results' = <<>>
        /\ ret' = <<>>
        /\ IF fault[1] = "import"
           THEN /\ call' = [c EXCEPT !.outcome = "ImportError"]
                /\ UNCHANGED <<db, inTxn, committed, stores, supplied>>
           ELSE IF opened # "ok"
           THEN /\ call' = [c EXCEPT !.outcome = opened]
                /\ UNCHANGED <<db, inTxn, committed, stores, supplied>>
           ELSE IF _connection = "None"
           THEN /\ call' = [c EXCEPT !.outcome = "AttributeError"]
                /\ UNCHANGED <<db, inTxn, committed, stores, supplied>>
           ELSE /\ db' = r.db
                /\ call' = [c EXCEPT !.outcome = r.outcome]
                /\ IF r.outcome = "ok"
                   THEN /\ inTxn' = FALSE
                        /\ committed' = Commit(r.db)
                        /\ stores' = stores \cup {table}
                   ELSE UNCHANGED <<inTxn, committed, stores>>

\* ------------------------------------------------------- the write path

\* The trigger embed_text, AFTER INSERT ON its table: INSERT INTO vss_{table}
\* (rowid, text_embedding) VALUES (new.rowid, new.text_embedding).
embed_text(d, table, rowid, row) ==
    IF d.trigger # table THEN d
    ELSE [d EXCEPT !.index[table] =
            Append(@, [rowid |-> rowid, text_embedding |-> vss_vector(row.text_embedding)])]

\* An InsertRow that writes every row of a call under the rowid of the last
\* stored row (INSERT OR REPLACE on a key that does not advance).
InsertRow_overwrite(d, table, row) ==
    IF d.rows[table] = <<>> THEN [d EXCEPT !.rows[table] = <<row>>]
    ELSE [d EXCEPT !.rows[table][Len(d.rows[table])] = row]

\* INSERT INTO {table}(text, metadata, text_embedding) VALUES (?,?,?): the row
\* gets the next rowid, and the trigger runs within the statement.
InsertRow(d, table, row) ==
    LET rowid == Len(d.rows[table]) + 1
    IN  embed_text([d EXCEPT !.rows[table] = Append(@, row)], table, rowid, row)

\* executemany: one INSERT per item, in order, up to the item the storage
\* layer fails (0: none); the rows before it stay in the open transaction.
RECURSIVE executemany(_, _, _, _)
executemany(d, table, data_input, failAt) ==
    IF data_input = <<>> \/ failAt = 1 THEN d
    ELSE executemany(InsertRow(d, table, Head(data_input)), table,
                     Tail(data_input), IF failAt = 0 THEN 0 ELSE failAt - 1)

\* data_input: zip(texts, metadatas, embeds), each item serialized.
DataInput(texts, metadatas, embeds) ==
    [i \in 1..Min(Len(texts), Min(Len(metadatas), Len(embeds))) |->
        [text |-> texts[i],
         metadata |-> json_dumps(metadatas[i]),
         text_embedding |-> json_dumps(PyList(embeds[i]))]]

\* metadatas as add_texts uses them: [{} for _ in texts] unless a non-empty
\* list was passed.
Metadatas(texts, metadatas) ==
    IF Truthy(metadatas) THEN metadatas.val ELSE [i \in 1..Len(texts) |-> PyDict(<<>>)]

\* The (text, metadata) pairs of a call: metadata None where none was passed.
Pairs(texts, metadatas) ==
    {<<texts[i], IF metadatas.type = "list" /\ i <= Len(metadatas.val)
                 THEN metadatas.val[i] ELSE PyNone>> : i \in 1..Len(texts)}

\* add_texts(texts, metadatas) of the store of `table`.
add_texts(table, texts, metadatas, fault) ==
    LET c == [NoCall EXCEPT !.op = "add_texts", !.table = table, !.texts = texts,
                            !.metadatas = metadatas, !.fault = fault]
        data_input == DataInput(texts, Metadatas(texts, metadatas), embed_documents(texts))
    IN  /\ Idle
        /\ table \in stores
        /\ Len(db.rows["test"]) + Len(db.rows["other"]) + Len(texts) <= MaxRows
        /\ fault[2] <= Len(data_input)
        /\ results' = <<>>
        /\ ret' = <<>>
        /\ stores' = stores
        /\ IF fault[1] = "embed"
           THEN /\ call' = [c EXCEPT !.outcome = "EmbeddingError"]
                /\ UNCHANGED <<db, inTxn, committed, supplied>>
           ELSE /\ db' = executemany(db, table, data_input, fault[2])
                /\ IF fault[1] = "storage"
                   THEN /\ call' = [c EXCEPT !.outcome = "OperationalError"]
                        /\ inTxn' = TRUE
                        /\ UNCHANGED <<committed, supplied>>
                   ELSE /\ call' = c
                        /\ inTxn' = FALSE
                        /\ committed' = Commit(db')
                        /\ supplied' = [supplied EXCEPT ![table] =
                                           @ \cup Pairs(texts, metadatas)]

\* from_texts(texts, embedding, metadatas, db_file): create_connection first;
\* its exception ends the call before the constructor and add_texts.
from_texts(texts, metadatas) ==
    LET c == [NoCall EXCEPT !.op = "from_texts", !.texts = texts, !.metadatas = metadatas]
    IN  /\ Idle
        /\ call' = [c EXCEPT !.outcome = create_connection.outcome]
        /\ results' = <<>>
        /\ ret' = <<>>
        /\ UNCHANGED <<db, inTxn, committed, stores, supplied>>

\* ------------------------------------------------------- the query path

\* vss_search(v.text_embedding, vss_search_params(query, k)) on the index of a
\* table: the positions of the k entries nearest to the query (all of them when
\* there are fewer), nearest first; entries at the same distance come in any
\* order.
vss_search(idx, query, k) ==
    LET n == Min(k, Len(idx))
        dist(i) == L2(idx[i].text_embedding, query)
    IN  {s \in [1..n -> 1..Len(idx)] :
            /\ \A i, j \in 1..n : i < j => s[i] # s[j] /\ dist(s[i]) <= dist(s[j])
            /\ \A m \in 1..Len(idx) :
                  (\A i \in 1..n : s[i] # m) => \A i \in 1..n : dist(s[i]) <= dist(m)}

\* SELECT text, metadata, distance FROM {table} e INNER JOIN vss_{table} v
\* ON v.rowid = e.rowid WHERE vss_search(...): the hits, in the order of the
\* search, each joined to its primary row.
SelectRows(d, table, query, hits) ==
    LET idx == d.index[table]
        Joined(i) == idx[i].rowid \in 1..Len(d.rows[table])
        kept == SelectSeq(hits, Joined)
    IN  [i \in 1..Len(kept) |->
            [text |-> d.rows[table][idx[kept[i]].rowid].text,
             metadata |-> d.rows[table][idx[kept[i]].rowid].metadata,
             distance |-> L2(idx[kept[i]].text_embedding, query)]]

\* A Documents that puts each new pair at the front of the list.
Documents_reversed(rows) ==
    [i \in 1..Len(rows) |->
        [doc |-> [page_content |-> rows[Len(rows) + 1 - i].text,
                  metadata |-> json_loads(rows[Len(rows) + 1 - i].metadata)],
         score |-> euclidean_relevance_score_fn(rows[Len(rows) + 1 - i].distance)]]

\* documents: one (Document, score) per fetched row, in the order fetched.
Documents(rows) ==
    [i \in 1..Len(rows) |->
        [doc |-> [page_content |-> rows[i].text, metadata |-> json_loads(rows[i].metadata)],
         score |-> euclidean_relevance_score_fn(rows[i].distance)]]

\* [doc for doc, _ in documents]
DocsOnly(documents) == [i \in 1..Len(documents) |-> documents[i].doc]

\* similarity_search_with_score_by_vector: the outcomes of the query.  The
\* statement is executed whatever the width of the embedding; vss0 refuses a
\* query of another width than its column with an error.
similarity_search_with_score_by_vector(d, table, embedding, k) ==
    IF Len(embedding) # Dim(d, table)
    THEN {[issued |-> TRUE, results |-> <<>>, documents |-> <<>>,
           outcome |-> "OperationalError"]}
    ELSE {[issued |-> TRUE,
           results |-> SelectRows(d, table, embedding, hits),
           documents |-> Documents(SelectRows(d, table, embedding, hits)),
           outcome |-> "ok"] : hits \in vss_search(d.index[table], embedding, k)}

\* A search through one of the four entry points: op names it, withScore says
\* whether the scores are returned.
Search(op, table, query, embedding, k, withScore) ==
    LET c == [NoCall EXCEPT !.op = op, !.table = table, !.query = query,
                            !.embedding = embedding, !.k = k]
    IN  /\ Idle
        /\ table \in stores
        /\ UNCHANGED <<db, inTxn, committed, stores, supplied>>
        /\ \E r \in similarity_search_with_score_by_vector(db, table, embedding, k) :
              /\ call' = [c EXCEPT !.issued = r.issued, !.outcome = r.outcome]
              /\ results' = r.results
              /\ ret' = IF withScore THEN r.documents ELSE DocsOnly(r.documents)

\* similarity_search(query, k): embed_query (taken to return), then the search
\* by vector.
similarity_search(table, query, k) ==
    Search("similarity_search", table, query, embed_query(query), k, FALSE)

\* similarity_search_with_score(query, k)
similarity_search_with_score(table, query, k) ==
    Search("similarity_search_with_score", table, query, embed_query(query), k, TRUE)

\* similarity_search_by_vector(embedding, k)
similarity_search_by_vector(table, embedding, k) ==
    Search("similarity_search_by_vector", table, "", embedding, k, FALSE)

\* similarity_search_with_score_by_vector(embedding, k), called by the user.
search_with_score_by_vector(table, embedding, k) ==
    Search("similarity_search_with_score_by_vector", table, "", embedding, k, TRUE)

QueryTexts == {FakeTexts[i] : i \in 1..Len(FakeTexts)}

\* The faults that reach a constructor call: without a connection the call
\* ends in create_connection, before the probe and the statements.
InitFaults(connection) ==
    {<<"none", 0>>, <<"import", 0>>} \cup (IF connection = "None" THEN {} ELSE Faults(3))

Construct ==
    \E table \in TableNames, connection \in {"connection", "None"} :
       \E fault \in InitFaults(connection) : SQLiteVSS_init(table, connection, fault)

AddTexts ==
    \E table \in TableNames, texts \in Batches :
       \E metadatas \in MetadataArgs(Len(texts)), fault \in Faults(Len(texts)) :
          add_texts(table, texts, metadatas, fault)

FromTexts ==
    \E metadatas \in MetadataArgs(Len(FakeTexts)) : from_texts(FakeTexts, metadatas)

SearchByText ==
    \E table \in TableNames, query \in QueryTexts, k \in 1..MaxK :
       \/ similarity_search(table, query, k)
       \/ similarity_search_with_score(table, query, k)

SearchByVector ==
    \E table \in TableNames, embedding \in QueryVectors, k \in 1..MaxK :
       \/ similarity_search_by_vector(table, embedding, k)
       \/ search_with_score_by_vector(table, embedding, k)

\* The whole store: construction, writes and searches.
Next == Construct \/ AddTexts \/ FromTexts \/ SearchByText \/ SearchByVector \/ Return

Spec == Init /\ [][Next]_vars

\* ------------------------------------------------------------ the claims

WithScoreOps == {"similarity_search_with_score", "similarity_search_with_score_by_vector"}
SearchOps == WithScoreOps \cup {"similarity_search", "similarity_search_by_vector"}

\* The distance of a stored row to a query, as the index computes it.
RowDistance(row, query) == L2(vss_vector(row.text_embedding), query)

\* C1: for every table a store was constructed on, the row ids of the vector
\* index vss_<table> are the row ids of the primary table, and each index
\* entry holds the embedding of its primary row.
C1_IndexSynchronized ==
    \A t \in stores :
       /\ {db.index[t][i].rowid : i \in 1..Len(db.index[t])} = 1..Len(db.rows[t])
       /\ Len(db.index[t]) = Len(db.rows[t])
       /\ \A i \in 1..Len(db.index[t]) :
             LET e == db.index[t][i]
             IN  /\ e.rowid \in 1..Len(db.rows[t])
                 /\ e.text_embedding = vss_vector(db.rows[t][e.rowid].text_embedding)

\* C2: a successful add_texts(texts, metadatas), metadatas omitted or as long
\* as texts, adds exactly len(texts) rows to the primary table and leaves every
\* row stored before as it was.
C2_AddTextsGrows ==
    [][(/\ call'.op = "add_texts"
        /\ call'.outcome = "ok"
        /\ (call'.metadatas.type = "list" => Len(call'.metadatas.val) = Len(call'.texts)))
       => LET t == call'.table
          IN  /\ Len(db'.rows[t]) = Len(db.rows[t]) + Len(call'.texts)
              /\ SubSeq(db'.rows[t], 1, Len(db.rows[t])) = db.rows[t]
              /\ \A u \in TableNames \ {t} : db'.rows[u] = db.rows[u]]_vars

\* C2's case: add_texts has just stored, a second time, the documents the
\* table held.
C2_Witness ==
    /\ call.op = "add_texts"
    /\ call.outcome = "ok"
    /\ Len(call.texts) > 0
    /\ LET rows == db.rows[call.table]
           n == Len(call.texts)
       IN  /\ Len(rows) = 2 * n
           /\ SubSeq(rows, 1, n) = SubSeq(rows, n + 1, 2 * n)

\* C3: a similarity search with k = 1 for a text that add_texts stored returns
\* that text, with the metadata it was given: None when none was passed.
C3_SearchReturnsWhatWasAdded ==
    (/\ call.op = "similarity_search"
     /\ call.k = 1
     /\ \E p \in supplied[call.table] : p[1] = call.query)
    => /\ call.outcome = "ok"
       /\ Len(ret) = 1
       /\ ret[1].page_content = call.query
       /\ <<call.query, ret[1].metadata>> \in supplied[call.table]

\* C4: on a table of N rows, similarity_search_with_score_by_vector with k > 0
\* returns min(k, N) results, the min(k, N) rows nearest to the query, in
\* ascending order of distance.
C4_KNearestAscending ==
    (/\ call.op = "similarity_search_with_score_by_vector"
     /\ call.outcome = "ok")
    => LET rows == db.rows[call.table]
           n == Min(call.k, Len(rows))
       IN  /\ Len(ret) = n
           /\ Len(results) = n
           /\ \A i, j \in 1..Len(results) :
                 i < j => results[i].distance <= results[j].distance
           /\ \E s \in [1..n -> 1..Len(rows)] :
                 /\ \A i, j \in 1..n : i # j => s[i] # s[j]
                 /\ \A i \in 1..n :
                       /\ results[i].text = rows[s[i]].text
                       /\ results[i].metadata = rows[s[i]].metadata
                       /\ results[i].distance = RowDistance(rows[s[i]], call.embedding)
                 /\ \A m \in 1..Len(rows) :
                       (\A i \in 1..n : s[i] # m)
                       => \A i \in 1..n :
                             results[i].distance <= RowDistance(rows[m], call.embedding)

C6_MismatchIsRefused ==
    (/\ call.op \in SearchOps
     /\ Len(call.embedding) # Dim(db, call.table))
    => /\ call.outcome = "DimensionMismatchError"
       /\ ~call.issued

\* C7: a failed add_texts leaves no record of its batch in the primary table
\* or the index, and no transaction open.
C7_FailedBatchLeavesNothing ==
    [][(call'.op = "add_texts" /\ call'.outcome # "ok")
       => /\ db'.rows = db.rows
          /\ db'.index = db.index
          /\ ~inTxn']_vars

\* C8: constructing a store again on a table a store was constructed on raises
\* no error and leaves the schema, the rows and the index as they were.
C8_SchemaIdempotent ==
    [][(/\ call'.op = "__init__"
        /\ call'.existed
        /\ call'.connection = "connection"
        /\ call'.fault = <<"none", 0>>)
       => /\ call'.outcome = "ok"
          /\ db' = db
          /\ stores' = stores]_vars

\* C8's case: a second construction on a table that holds rows has returned.
C8_Witness ==
    /\ call.op = "__init__"
    /\ call.existed
    /\ call.outcome = "ok"
    /\ Len(db.rows[call.table]) > 0
    /\ Len(db.index[call.table]) > 0

\* C9: a construction that fails leaves no schema object that did not exist
\* before it began.
C9_NoPartialSchema ==
    [][(call'.op = "__init__" /\ call'.outcome # "ok")
       => /\ db'.tables = db.tables
          /\ db'.vtabs = db.vtabs
          /\ db'.trigger = db.trigger]_vars

\* C10: a construction the environment does not fail, with a connection passed
\* or without one, ends with a store that holds a usable connection.
C10_HoldsConnection ==
    (call.op = "__init__" /\ call.fault = <<"none", 0>>)
    => /\ call.outcome = "ok"
       /\ call.table \in stores

====
